---- MODULE Spec2Model ----
(***************************************************************************)
(* ESP32-S3 Safe Mode Flasher (src/src/main.cpp): the start-up sequence    *)
(* setup() = secureAllPins(); disablePeripherals(); showStatus(), followed *)
(* by the polling loop().  Pin hardware, peripheral controllers, the        *)
(* millisecond clock and the console are the Arduino platform's; they are   *)
(* modelled by the state the program's calls act on.                        *)
(***************************************************************************)
EXTENDS Integers, Sequences, FiniteSets

\* ---------------------------------------------------------------- bounds
\* loop() iterations explored after setup()
MaxLoops == 3
\* disablePeripherals() calls explored by the peripheral-shutdown harness
MaxCalls == 2
\* largest number of PWM pins / RMT channels active before a shutdown
MaxAttached == 2
MaxInstalled == 1

\* ------------------------------------------------------- configuration
LOG_LEVEL == 2
SAFETY_DELAY_MS == 10
MAX_PIN == 48
SETUP_DELAY_MS == 2000
HEARTBEAT_MS == 1000
STATUS_MS == 30000
LOOP_DELAY_MS == 100
HEARTBEAT_PIN == 2
RMT_CHANNELS == 8

Pins == 0..MAX_PIN

CRITICAL_PINS ==
  << 22, 23, 24, 25, 26, 27, 28, 29, 30, 31, 32,
     33, 34, 35, 36, 37, 38, 39, -1 >>

\* mutant: GPIO0 listed among the USB/UART pins as well
USB_UART_PINS_WithBoot == << 43, 44, 45, 46, 19, 18, 0, -1 >>

USB_UART_PINS == << 43, 44, 45, 46, 19, 18, -1 >>

PULLUP_PINS == << 0, -1 >>

pwmPins == << 2, 4, 5, 12, 13, 14, 15, 18, 19, 21, 22, 23, 25, 26, 27, 32, 33 >>

\* GPIO_IS_VALID_GPIO is the SoC's macro: which indices it accepts depends on
\* the chip the sketch is built for.  ESP32-S3 has no GPIO22..25; the
\* original ESP32 (README: "Other ESP32 development boards") has 40 pads, of
\* which 24 and 28..31 do not exist.
ValidEsp32S3 == (0..48) \ {22, 23, 24, 25}
ValidEsp32 == (0..39) \ {24, 28, 29, 30, 31}
SocValidMasks == {ValidEsp32S3, ValidEsp32}

\* bytes the console may deliver; "none" = Serial.available() is 0
Chars == {"s", "S", "v", "V", "r", "R", "h", "H", "?", "x", "\n"}
NoChar == "none"

\* time a loop() pass may take beyond its delay(100)
Elapse == {0, HEARTBEAT_MS, STATUS_MS}

VARIABLES
  validGpio,      \* the indices GPIO_IS_VALID_GPIO accepts on this chip
  pc,             \* position of the single thread of control
  pin,            \* secureAllPins' loop variable
  safePins, skippedPins, specialPins, verboseMode,
  pinCfg,         \* per pin: "NONE" (never configured), "INPUT", "INPUT_PULLUP", "OUTPUT"
  pinLatch,       \* per pin: output latch "NONE", "LOW", "HIGH"
  events,         \* what secureAllPins did, in order: log lines, hardware calls, delays
  hwCalls,        \* every hardware call issued with a pin argument
  out,            \* console lines printed by the last step
  clock,          \* millis()
  now, cmd, lastHeartbeat, lastStatus, ledState,   \* loop()'s locals and statics
  loops,          \* completed loop() passes
  periph,         \* peripheral controllers' state
  periphCalls     \* completed disablePeripherals() calls

vars == << validGpio, pc, pin, safePins, skippedPins, specialPins, verboseMode,
           pinCfg, pinLatch, events, hwCalls, out, clock, now, cmd, lastHeartbeat,
           lastStatus, ledState, loops, periph, periphCalls >>

counters == << safePins, skippedPins, specialPins >>
pinState == << pinCfg, pinLatch >>
loopVars == << now, cmd, lastHeartbeat, lastStatus, ledState >>

\* ------------------------------------------------------------ utilities
RECURSIVE ScanCritical(_, _)
ScanCritical(p, i) ==
  IF CRITICAL_PINS[i] = -1 THEN FALSE
  ELSE IF p = CRITICAL_PINS[i] THEN TRUE
  ELSE ScanCritical(p, i + 1)

\* mutant: the scan stops one entry short of the end marker
isCriticalPin_Short(p) == \E i \in 1..(Len(CRITICAL_PINS) - 2) : p = CRITICAL_PINS[i]

isCriticalPin(p) == ScanCritical(p, 1)

RECURSIVE ScanUsbUart(_, _)
ScanUsbUart(p, i) ==
  IF USB_UART_PINS[i] = -1 THEN FALSE
  ELSE IF p = USB_UART_PINS[i] THEN TRUE
  ELSE ScanUsbUart(p, i + 1)

isUsbUartPin(p) == ScanUsbUart(p, 1)

RECURSIVE ScanPullup(_, _)
ScanPullup(p, i) ==
  IF PULLUP_PINS[i] = -1 THEN FALSE
  ELSE IF p = PULLUP_PINS[i] THEN TRUE
  ELSE ScanPullup(p, i + 1)

\* mutant: the scan starts at the second entry
needsPullup_OffByOne(p) == ScanPullup(p, 2)

needsPullup(p) == ScanPullup(p, 1)

GPIO_IS_VALID_GPIO(p) == p \in validGpio

Line(t, v) == [text |-> t, val |-> v]

\* logMessage(level, ...): the lines it prints
logMessage(level, t, v) == IF level > LOG_LEVEL THEN << >> ELSE << Line(t, v) >>

\* ------------------------------------------------------------ pin safety
Op(k, p, a) == [kind |-> k, pin |-> p, arg |-> a]

\* the branch secureAllPins takes for a pin: the checks in the order of the code
Branch(p) ==
  IF ~GPIO_IS_VALID_GPIO(p) THEN "Invalid"
  ELSE IF isCriticalPin(p) THEN "Critical"
  ELSE IF isUsbUartPin(p) THEN "UsbUart"
  ELSE IF needsPullup(p) THEN "Pullup"
  ELSE "Default"

\* mutant: the invalid branch forgets skippedPins++
BranchOps_NoInvalidCount(p, b) ==
  CASE b = "Invalid" ->
         << Op("log", p, "Skip: Invalid GPIO") >>
    [] b = "Critical" ->
         << Op("log", p, "Skip: Critical system pin"), Op("inc", p, "skippedPins") >>
    [] b = "UsbUart" ->
         << Op("pinMode", p, "INPUT"), Op("digitalWrite", p, "LOW"),
            Op("log", p, "INPUT (USB/UART)"), Op("inc", p, "specialPins"),
            Op("delay", p, "SAFETY_DELAY_MS") >>
    [] b = "Pullup" ->
         << Op("pinMode", p, "INPUT_PULLUP"),
            Op("log", p, "INPUT_PULLUP"), Op("inc", p, "specialPins"),
            Op("delay", p, "SAFETY_DELAY_MS") >>
    [] OTHER ->
         << Op("pinMode", p, "INPUT"), Op("digitalWrite", p, "LOW"),
            Op("log", p, "INPUT (High-Z)"), Op("inc", p, "safePins"),
            Op("delay", p, "SAFETY_DELAY_MS") >>

\* mutant: the default branch drives the pin, pinMode(pin, OUTPUT)
BranchOps_DefaultOutput(p, b) ==
  CASE b = "Invalid" ->
         << Op("log", p, "Skip: Invalid GPIO"), Op("inc", p, "skippedPins") >>
    [] b = "Critical" ->
         << Op("log", p, "Skip: Critical system pin"), Op("inc", p, "skippedPins") >>
    [] b = "UsbUart" ->
         << Op("pinMode", p, "INPUT"), Op("digitalWrite", p, "LOW"),
            Op("log", p, "INPUT (USB/UART)"), Op("inc", p, "specialPins"),
            Op("delay", p, "SAFETY_DELAY_MS") >>
    [] b = "Pullup" ->
         << Op("pinMode", p, "INPUT_PULLUP"),
            Op("log", p, "INPUT_PULLUP"), Op("inc", p, "specialPins"),
            Op("delay", p, "SAFETY_DELAY_MS") >>
    [] OTHER ->
         << Op("pinMode", p, "OUTPUT"), Op("digitalWrite", p, "LOW"),
            Op("log", p, "INPUT (High-Z)"), Op("inc", p, "safePins"),
            Op("delay", p, "SAFETY_DELAY_MS") >>

\* the statements of each branch of the loop body, in the order of the code
BranchOps(p, b) ==
  CASE b = "Invalid" ->
         << Op("log", p, "Skip: Invalid GPIO"), Op("inc", p, "skippedPins") >>
    [] b = "Critical" ->
         << Op("log", p, "Skip: Critical system pin"), Op("inc", p, "skippedPins") >>
    [] b = "UsbUart" ->
         << Op("pinMode", p, "INPUT"), Op("digitalWrite", p, "LOW"),
            Op("log", p, "INPUT (USB/UART)"), Op("inc", p, "specialPins"),
            Op("delay", p, "SAFETY_DELAY_MS") >>
    [] b = "Pullup" ->
         << Op("pinMode", p, "INPUT_PULLUP"),
            Op("log", p, "INPUT_PULLUP"), Op("inc", p, "specialPins"),
            Op("delay", p, "SAFETY_DELAY_MS") >>
    [] OTHER ->
         << Op("pinMode", p, "INPUT"), Op("digitalWrite", p, "LOW"),
            Op("log", p, "INPUT (High-Z)"), Op("inc", p, "safePins"),
            Op("delay", p, "SAFETY_DELAY_MS") >>

\* mutant: the loop advances by two
NextPin_Skip(p) == p + 2

\* the loop's increment and bound, "pin <= 48; pin++"
NextPin(p) == p + 1
PassDone(p) == ~(p <= MAX_PIN)

Count(ops, k, a) == Cardinality({ i \in DOMAIN ops : ops[i].kind = k /\ ops[i].arg = a })
HasKind(ops, k) == \E i \in DOMAIN ops : ops[i].kind = k
\* the argument of the last call of kind k in ops
LastArg(ops, k) ==
  LET idx == { i \in DOMAIN ops : ops[i].kind = k }
      last == CHOOSE i \in idx : \A j \in idx : j <= i
  IN ops[last].arg

\* pinMode(pin, mode): the pin's direction and pulls
pinMode(cfg, p, mode) == [cfg EXCEPT ![p] = mode]
\* digitalWrite(pin, level): the pin's output latch; the direction is not changed
digitalWrite(latch, p, level) == [latch EXCEPT ![p] = level]
\* delay(ms): millis() advances (an unsigned 32-bit count of milliseconds, which
\* wraps after 49 days; the passes explored here end within minutes of reset)
delay(t, ms) == t + ms

HwCall(f, p, a, who) == [fn |-> f, pin |-> p, arg |-> a, by |-> who]
HwCallsOf(ops, who) ==
  { HwCall(ops[i].kind, ops[i].pin, ops[i].arg, who) :
      i \in { j \in DOMAIN ops : ops[j].kind \in {"pinMode", "digitalWrite", "ledcDetach"} } }

RECURSIVE LogLines(_)
LogLines(ops) ==
  IF ops = << >> THEN << >>
  ELSE (IF Head(ops).kind = "log"
          THEN logMessage(2, Head(ops).arg, Head(ops).pin) ELSE << >>)
       \o LogLines(Tail(ops))

\* what the console shows of a branch: a level-2 line only if LOG_LEVEL lets it through
Visible(ops) ==
  SelectSeq(ops, LAMBDA o : o.kind # "log" \/ logMessage(2, o.arg, o.pin) # << >>)

SecureBegin ==
  /\ pc = "secure_begin"
  /\ out' = logMessage(1, "Securing GPIO pins...", 0)
  /\ pin' = 0
  /\ pc' = "secure"
  /\ UNCHANGED << validGpio, counters, verboseMode, pinState, events, hwCalls,
                  clock, loopVars, loops, periph, periphCalls >>

\* one pass of the for loop's body
SecurePin ==
  /\ pc = "secure"
  /\ ~PassDone(pin)
  /\ LET ops == BranchOps(pin, Branch(pin)) IN
       /\ pinCfg' = IF HasKind(ops, "pinMode")
                      THEN pinMode(pinCfg, pin, LastArg(ops, "pinMode")) ELSE pinCfg
       /\ pinLatch' = IF HasKind(ops, "digitalWrite")
                        THEN digitalWrite(pinLatch, pin, LastArg(ops, "digitalWrite"))
                        ELSE pinLatch
       /\ safePins' = safePins + Count(ops, "inc", "safePins")
       /\ specialPins' = specialPins + Count(ops, "inc", "specialPins")
       /\ skippedPins' = skippedPins + Count(ops, "inc", "skippedPins")
       /\ clock' = IF HasKind(ops, "delay") THEN delay(clock, SAFETY_DELAY_MS) ELSE clock
       /\ events' = events \o Visible(ops)
       /\ hwCalls' = hwCalls \cup HwCallsOf(ops, "secureAllPins")
       /\ out' = LogLines(ops)
  /\ pin' = NextPin(pin)
  /\ UNCHANGED << validGpio, pc, verboseMode, loopVars, loops, periph, periphCalls >>

SecureEnd ==
  /\ pc = "secure"
  /\ PassDone(pin)
  /\ out' = logMessage(1, "All pins secured", 0)
  /\ pc' = "disable"
  /\ UNCHANGED << validGpio, pin, counters, verboseMode, pinState, events, hwCalls,
                  clock, loopVars, loops, periph, periphCalls >>

\* ------------------------------------------------------ peripheral safety
\* The platform's calls.  Each releases one controller; releasing an inactive
\* one changes nothing.  periph.err stands for an error raised to the caller:
\* disablePeripherals() is void and examines no call's result, so it never
\* sets it.
ledcDetach(ps, p) == [ps EXCEPT !.pwm = @ \ {p}]
rmt_driver_uninstall(ps, ch) == [ps EXCEPT !.rmt = @ \ {ch}]
WireEnd(ps) == [ps EXCEPT !.wire = FALSE]
SPIEnd(ps) == [ps EXCEPT !.spi = FALSE]
Serial2End(ps) == [ps EXCEPT !.serial2 = FALSE]
SerialBegin(ps) == [ps EXCEPT !.serial = TRUE]

\* for (i = 0; i < sizeof(pwmPins)/sizeof(pwmPins[0]); i++) ledcDetach(pwmPins[i]);
RECURSIVE DetachPwm(_, _)
DetachPwm(ps, i) ==
  IF i > Len(pwmPins) THEN ps ELSE DetachPwm(ledcDetach(ps, pwmPins[i]), i + 1)

\* for (ch = 0; ch < 8; ch++) rmt_driver_uninstall(ch);
RECURSIVE UninstallRmt(_, _)
UninstallRmt(ps, ch) ==
  IF ~(ch < RMT_CHANNELS) THEN ps ELSE UninstallRmt(rmt_driver_uninstall(ps, ch), ch + 1)

\* mutant: SPI.end() left out
disablePeripherals_NoSpiEnd(ps) ==
  Serial2End(WireEnd(UninstallRmt(DetachPwm(ps, 1), 0)))

\* the controllers after disablePeripherals(); every call's result is discarded
disablePeripherals(ps) ==
  Serial2End(SPIEnd(WireEnd(UninstallRmt(DetachPwm(ps, 1), 0))))

DisableOps == [ i \in 1..Len(pwmPins) |-> Op("ledcDetach", pwmPins[i], "") ]

DisableLines ==
  logMessage(1, "Disabling peripherals...", 0)
  \o logMessage(2, "PWM detached", 0)
  \o logMessage(2, "RMT controllers uninstalled", 0)
  \o logMessage(2, "I2C stopped", 0)
  \o logMessage(2, "SPI stopped", 0)
  \o logMessage(2, "Serial2 stopped", 0)
  \o logMessage(1, "All peripherals disabled", 0)

\* ------------------------------------------------------------ status
showStatus ==
  << Line("ESP32-S3 SAFE MODE FLASHER", 0),
     Line("STATUS SUMMARY", 0),
     Line("Safe GPIO pins", safePins),
     Line("Special pins", specialPins),
     Line("Skipped pins", skippedPins),
     Line("Total pins", safePins + specialPins + skippedPins),
     Line("CURRENT STATE", 0),
     Line("All GPIOs in high-impedance INPUT", 0),
     Line("No pull-up/pull-down resistors active", 0),
     Line("All peripherals (PWM/RMT/I2C/SPI) disabled", 0),
     Line("System in low-power safe state", 0),
     Line("NEXT STEPS", 0),
     Line("WARNING", 0),
     Line("GPIO0 must stay HIGH for normal boot", 0),
     Line("Do not connect anything to USB pins (45,46)", 0),
     Line("Critical pins (22-39) are untouched", 0),
     Line("System is READY for safe programming", 0) >>

\* ------------------------------------------------------------ setup
SetupBegin ==
  /\ pc = "start"
  /\ periph' = SerialBegin(periph)
  /\ clock' = delay(clock, SETUP_DELAY_MS)
  /\ out' = << Line("banner", 0) >> \o logMessage(1, "Starting safety procedures...", 0)
  /\ pc' = "secure_begin"
  /\ UNCHANGED << validGpio, pin, counters, verboseMode, pinState, events, hwCalls,
                  loopVars, loops, periphCalls >>

SetupDisable ==
  /\ pc = "disable"
  /\ periph' = disablePeripherals(periph)
  /\ hwCalls' = hwCalls \cup HwCallsOf(DisableOps, "disablePeripherals")
  /\ out' = DisableLines
  /\ periphCalls' = periphCalls + 1
  /\ pc' = "status"
  /\ UNCHANGED << validGpio, pin, counters, verboseMode, pinState, events,
                  clock, loopVars, loops >>

SetupStatus ==
  /\ pc = "status"
  /\ out' = showStatus \o logMessage(1, "Safety mode active. Monitoring...", 0)
  /\ pc' = "loop"
  /\ UNCHANGED << validGpio, pin, counters, verboseMode, pinState, events, hwCalls,
                  clock, loopVars, loops, periph, periphCalls >>

\* ------------------------------------------------------------ loop
\* "now - last" on unsigned long; last <= now below the wrap of millis()
Since(t, last) == t - last

\* "unsigned long now = millis();" and the heartbeat block
LoopHeartbeat ==
  /\ pc = "loop"
  /\ now' = clock
  /\ IF Since(now', lastHeartbeat) > HEARTBEAT_MS
       THEN /\ lastHeartbeat' = now'
            /\ IF ~isCriticalPin(HEARTBEAT_PIN) /\ ~isUsbUartPin(HEARTBEAT_PIN)
                 THEN /\ pinLatch' = digitalWrite(pinLatch, HEARTBEAT_PIN,
                                                  IF ledState THEN "HIGH" ELSE "LOW")
                      /\ hwCalls' = hwCalls \cup
                           { HwCall("digitalWrite", HEARTBEAT_PIN,
                                    IF ledState THEN "HIGH" ELSE "LOW", "loop") }
                      /\ ledState' = ~ledState
                 ELSE UNCHANGED << pinLatch, hwCalls, ledState >>
       ELSE UNCHANGED << lastHeartbeat, pinLatch, hwCalls, ledState >>
  /\ out' = << >>
  /\ pc' = "loop_status"
  /\ UNCHANGED << validGpio, pin, counters, verboseMode, pinCfg, events, clock,
                  cmd, lastStatus, loops, periph, periphCalls >>

\* the periodic status block
LoopStatus ==
  /\ pc = "loop_status"
  /\ IF Since(now, lastStatus) > STATUS_MS
       THEN /\ lastStatus' = now
            /\ out' = << Line("[STATUS CHECK] System still in safe mode.", 0),
                         Line("Uptime", now \div 1000),
                         Line("Ready for firmware upload.", 0) >>
       ELSE /\ out' = << >>
            /\ UNCHANGED lastStatus
  /\ pc' = "loop_cmd"
  /\ UNCHANGED << validGpio, pin, counters, verboseMode, pinState, events, hwCalls,
                  clock, now, cmd, lastHeartbeat, ledState, loops, periph, periphCalls >>

\* mutant: 'r' really resets, clearing the run counters
Dispatch_Reset(c) ==
  /\ cmd' = c
  /\ out' = (CASE c \in {"s", "S"} -> showStatus
              [] c \in {"v", "V"} -> << Line("Verbose mode", IF verboseMode THEN 0 ELSE 1) >>
              [] c \in {"r", "R"} -> << Line("Simulating reset...", 0) >>
              [] c \in {"?", "h", "H"} -> << Line("COMMANDS", 0) >>
              [] OTHER -> << >>)
  /\ verboseMode' = (IF c \in {"v", "V"} THEN ~verboseMode ELSE verboseMode)
  /\ IF c \in {"r", "R"}
       THEN safePins' = 0 /\ skippedPins' = 0 /\ specialPins' = 0
       ELSE UNCHANGED counters
  /\ UNCHANGED << pinState, hwCalls >>

\* switch (cmd) for a received character
Dispatch(c) ==
  /\ cmd' = c
  /\ CASE c \in {"s", "S"} ->
            /\ out' = showStatus
            /\ UNCHANGED verboseMode
       [] c \in {"v", "V"} ->
            /\ verboseMode' = ~verboseMode
            /\ out' = << Line("Verbose mode", IF verboseMode' THEN 1 ELSE 0) >>
       [] c \in {"r", "R"} ->
            /\ out' = << Line("Simulating reset...", 0),
                         Line("(In real hardware, press RESET button)", 0) >>
            /\ UNCHANGED verboseMode
       [] c \in {"?", "h", "H"} ->
            /\ out' = << Line("COMMANDS", 0), Line("s - Show status", 0),
                         Line("v - Toggle verbose mode", 0),
                         Line("r - Reset reminder", 0), Line("h - This help", 0) >>
            /\ UNCHANGED verboseMode
       [] OTHER ->
            /\ out' = << >>
            /\ UNCHANGED verboseMode
  /\ UNCHANGED << counters, pinState, hwCalls >>

\* "if (Serial.available()) { char cmd = Serial.read(); switch ... }"
LoopCommand ==
  /\ pc = "loop_cmd"
  /\ \/ \E c \in Chars : Dispatch(c)
     \/ /\ cmd' = NoChar
        /\ out' = << >>
        /\ UNCHANGED << counters, verboseMode, pinState, hwCalls >>
  /\ pc' = "loop_delay"
  /\ UNCHANGED << validGpio, pin, events, clock, now, lastHeartbeat, lastStatus,
                  ledState, loops, periph, periphCalls >>

\* delay(100), and whatever else the pass took
LoopDelay ==
  /\ pc = "loop_delay"
  /\ loops < MaxLoops
  /\ \E e \in Elapse : clock' = delay(delay(clock, LOOP_DELAY_MS), e)
  /\ loops' = loops + 1
  /\ out' = << >>
  /\ pc' = "loop"
  /\ UNCHANGED << validGpio, pin, counters, verboseMode, pinState, events, hwCalls,
                  loopVars, periph, periphCalls >>

\* ------------------------------------------------------------ behaviours
NoPeriph == [pwm |-> {}, rmt |-> {}, wire |-> FALSE, spi |-> FALSE,
             serial2 |-> FALSE, serial |-> FALSE, err |-> FALSE]

InitCommon ==
  /\ validGpio \in SocValidMasks
  /\ pin = 0
  /\ safePins = 0 /\ skippedPins = 0 /\ specialPins = 0
  /\ verboseMode = TRUE
  /\ pinCfg = [p \in Pins |-> "NONE"]
  /\ pinLatch = [p \in Pins |-> "NONE"]
  /\ events = << >>
  /\ hwCalls = {}
  /\ out = << >>
  /\ clock = 0
  /\ now = 0 /\ cmd = NoChar /\ lastHeartbeat = 0 /\ lastStatus = 0 /\ ledState = FALSE
  /\ loops = 0
  /\ periphCalls = 0

\* after reset: globals initialised, no controller started
Init ==
  /\ InitCommon
  /\ pc = "start"
  /\ periph = NoPeriph

Next ==
  \/ SetupBegin
  \/ SecureBegin
  \/ SecurePin
  \/ SecureEnd
  \/ SetupDisable
  \/ SetupStatus
  \/ LoopHeartbeat
  \/ LoopStatus
  \/ LoopCommand
  \/ LoopDelay

Spec == Init /\ [][Next]_vars

\* the single thread of control always takes its next step
FairSpec == Spec /\ WF_vars(Next)

\* ---- disablePeripherals() as a function of the controllers' state ----
PwmPinSet == { pwmPins[i] : i \in DOMAIN pwmPins }
SmallSubsets(S, n) == { T \in SUBSET S : Cardinality(T) <= n }

PeriphStates ==
  [ pwm : SmallSubsets(PwmPinSet, MaxAttached),
    rmt : SmallSubsets(0..(RMT_CHANNELS - 1), MaxInstalled),
    wire : BOOLEAN, spi : BOOLEAN, serial2 : BOOLEAN,
    serial : {TRUE}, err : {FALSE} ]

InitPeriph ==
  /\ InitCommon
  /\ pc = "periph"
  /\ periph \in PeriphStates

CallDisable ==
  /\ pc = "periph"
  /\ periphCalls < MaxCalls
  /\ periph' = disablePeripherals(periph)
  /\ hwCalls' = hwCalls \cup HwCallsOf(DisableOps, "disablePeripherals")
  /\ out' = DisableLines
  /\ periphCalls' = periphCalls + 1
  /\ UNCHANGED << validGpio, pc, pin, counters, verboseMode, pinState, events,
                  clock, loopVars, loops >>

NextPeriph == CallDisable

SpecPeriph == InitPeriph /\ [][NextPeriph]_vars

\* =====================================================================
\* Properties
\* =====================================================================
\* the chip profile the specification states
ProfileCritical == 22..39
ProfileUsbUart == {18, 19, 43, 44, 45, 46}
ProfilePullup == {0}
Invalid == Pins \ validGpio

Total == safePins + specialPins + skippedPins
\* positions at which secureAllPins() has returned
AfterPass == {"disable", "status", "loop", "loop_status", "loop_cmd", "loop_delay"}
LoopPcs == {"loop", "loop_status", "loop_cmd", "loop_delay"}
EventsOf(p, k) == { i \in DOMAIN events : events[i].pin = p /\ events[i].kind = k }
LogEvents == SelectSeq(events, LAMBDA o : o.kind = "log")

\* C1: counter conservation.  After index p has been handled the three
\* counters sum to p + 1 (pin is then p + 1), each handled index has
\* incremented exactly one counter exactly once, each counter is the number of
\* its increments, and once the pass has finished the sum is 49.
C1_CounterConservation ==
  /\ Total = pin
  /\ \A p \in 0..(pin - 1) : Cardinality(EventsOf(p, "inc")) = 1
  /\ safePins = Count(events, "inc", "safePins")
  /\ specialPins = Count(events, "inc", "specialPins")
  /\ skippedPins = Count(events, "inc", "skippedPins")
  /\ pc \in AfterPass => Total = MAX_PIN + 1

C1_Witness == pc = "disable" /\ Total = 49 /\ safePins > 0 /\ specialPins > 0 /\ skippedPins > 0

\* C2: during the safing pass no pinMode, no digitalWrite and no delay is
\* issued for an index in 22..39, and when the pass returns those pins are
\* as they were before it (never configured, latch never written).
C2_CriticalUntouchedByPass ==
  \A p \in ProfileCritical :
    /\ EventsOf(p, "pinMode") = {} /\ EventsOf(p, "digitalWrite") = {}
    /\ EventsOf(p, "delay") = {}
    /\ \A c \in hwCalls : c.by = "secureAllPins" => c.pin # p
    /\ pc \in {"secure", "disable"} => pinCfg[p] = "NONE" /\ pinLatch[p] = "NONE"

C2_Witness ==
  /\ pc = "disable"
  /\ \E i \in DOMAIN events :
       events[i] = Op("log", 39, "Skip: Critical system pin")

\* C3: no hardware call taking a pin argument (pinMode, digitalWrite,
\* ledcDetach) is ever issued with a pin index in 22..39.
C3_NoCallOnCriticalPin == \A c \in hwCalls : c.pin \notin ProfileCritical

Conditions(p) ==
  (IF ~GPIO_IS_VALID_GPIO(p) THEN {"Invalid"} ELSE {})
  \cup (IF isCriticalPin(p) THEN {"Critical"} ELSE {})
  \cup (IF isUsbUartPin(p) THEN {"UsbUart"} ELSE {})
  \cup (IF needsPullup(p) THEN {"Pullup"} ELSE {})
TableHits(p) == Conditions(p) \ {"Invalid"}
ConditionsOrDefault(p) == IF Conditions(p) = {} THEN {"Default"} ELSE Conditions(p)
BranchText(b) ==
  CASE b = "Invalid" -> "Skip: Invalid GPIO"
    [] b = "Critical" -> "Skip: Critical system pin"
    [] b = "UsbUart" -> "INPUT (USB/UART)"
    [] b = "Pullup" -> "INPUT_PULLUP"
    [] OTHER -> "INPUT (High-Z)"
LoggedAs(p, b) == \E i \in EventsOf(p, "log") : events[i].arg = BranchText(b)

\* C5 as stated, on the ESP32-S3: of every handled index exactly one of the
\* five conditions (invalid, critical, USB/UART, pull-up, none of these) holds.
C5_ExactlyOneCondition ==
  validGpio = ValidEsp32S3 =>
    \A p \in 0..(pin - 1) : Cardinality(ConditionsOrDefault(p)) = 1

\* C5 amended: the three tables are pairwise disjoint and every index is
\* handled by exactly one branch: the invalid branch if the index is not a
\* valid GPIO (even when a table lists it too), otherwise the branch of the
\* one table that lists it, or the default branch if none does.
C5_Partition ==
  /\ \A p \in Pins : Cardinality(TableHits(p)) <= 1
  /\ \A p \in 0..(pin - 1) :
       /\ Cardinality(EventsOf(p, "log")) = 1
       /\ IF p \in Invalid THEN LoggedAs(p, "Invalid")
          ELSE \A b \in ConditionsOrDefault(p) : LoggedAs(p, b)

C5_Witness ==
  /\ pc = "disable"
  /\ 22 \in Invalid /\ isCriticalPin(22) /\ LoggedAs(22, "Invalid")
  /\ LoggedAs(26, "Critical") /\ LoggedAs(0, "Pullup") /\ LoggedAs(1, "Default")

\* C6: the pass handles 0..48 once each in ascending order: after p indices
\* the per-pin log lines are exactly those of 0..p-1 in that order, every
\* recorded event is of an index no smaller than the one before it, and the
\* pass, once begun, reaches its end with all 49 indices handled.
PassInOrder ==
  /\ Len(LogEvents) = (IF pc \in {"start", "secure_begin"} THEN 0 ELSE pin)
  /\ \A i \in DOMAIN LogEvents : LogEvents[i].pin = i - 1
  /\ \A i \in DOMAIN events : i > 1 => events[i - 1].pin <= events[i].pin
  /\ pin <= MAX_PIN + 1

C6_AscendingComplete ==
  /\ []PassInOrder
  /\ (pc = "secure") ~> (pc = "disable" /\ pin = MAX_PIN + 1)

C6_Witness == pc = "disable" /\ Len(LogEvents) = 49 /\ LogEvents[49].pin = 48

\* C7: no step of loop() changes a counter; dispatching a character changes
\* no counter, no pin state and issues no hardware call; 'v'/'V' flips
\* verboseMode and changes nothing else of the program's state (so two of
\* them restore it), nothing but 'v'/'V' ever changes verboseMode, and a
\* character outside the command set changes nothing and prints nothing.
Commands == {"s", "S", "v", "V", "r", "R", "h", "H", "?"}
ProgramState == << validGpio, pin, safePins, skippedPins, specialPins, pinCfg,
                   pinLatch, events, hwCalls, clock, now, lastHeartbeat, lastStatus,
                   ledState, periph >>
C7_Step ==
  /\ pc \in LoopPcs => counters' = counters
  /\ verboseMode' # verboseMode => pc = "loop_cmd" /\ cmd' \in {"v", "V"}
  /\ pc = "loop_cmd" =>
       /\ ProgramState' = ProgramState
       /\ cmd' \in {"v", "V"} => verboseMode' = ~verboseMode
       /\ cmd' \notin Commands => verboseMode' = verboseMode /\ out' = << >>

C7_CommandsFrame == [][C7_Step]_vars

C7_Witness == pc = "loop_delay" /\ cmd = "v" /\ verboseMode = TRUE /\ loops >= 1

\* C8: once disablePeripherals() has run, every listed peripheral is
\* disabled, no error has been surfaced and the console UART is still up;
\* a second run leaves exactly that state.
AllDisabled ==
  [pwm |-> {}, rmt |-> {}, wire |-> FALSE, spi |-> FALSE, serial2 |-> FALSE,
   serial |-> TRUE, err |-> FALSE]

C8_ShutdownIdempotent == periphCalls >= 1 => periph = AllDisabled

C8_Witness == periphCalls = 2 /\ periph = AllDisabled

\* C9: whenever the CURRENT STATE block has just been printed, no pin has a
\* pull-up enabled by the program and every configured pin is an input.
StatusPrinted == \E i \in DOMAIN out : out[i].text = "CURRENT STATE"

C9_ReportedStateTrue ==
  StatusPrinted => \A p \in Pins : pinCfg[p] \in {"NONE", "INPUT"}

\* what C10 says of the loop and of the pins the pass does not configure
C10_Rest ==
  /\ \A p \in Pins : pinCfg[p] # "OUTPUT"
  /\ \A p \in Pins : Branch(p) = "Default" => pinCfg[p] = "INPUT"
  /\ \A p \in Invalid \cup ProfileCritical : pinCfg[p] = "NONE"
  /\ \A c \in hwCalls :
       c.by = "loop" => c.fn = "digitalWrite" /\ c.pin = 2
  /\ 2 \notin ProfileCritical \cup ProfileUsbUart \cup ProfilePullup

====
